---- MODULE Spec2Model ----
(***************************************************************************)
(* The log-structured store of package plasma: lsStore over a ring of      *)
(* flushBuffers.  Every access to shared memory (an atomic load, store or  *)
(* compare-and-swap, or a plain field read or write) is one step of the    *)
(* thread that performs it.                                                *)
(***************************************************************************)
EXTENDS Integers, Sequences, FiniteSets, TLC

(* ------------------------------ bounds --------------------------------- *)

\* number of writer goroutines
NWriters == 2

\* total number of ReserveSpace calls made in one behaviour
MaxOps == 4

\* bufSize argument of newLSStore: capacity of one flush buffer, in bytes
BufSize == 2

\* nbufs argument of newLSStore: number of flush buffers in the ring
NBufs == 2

\* maxSize argument of newLSStore: size of the file region, in bytes
MaxSize == 3

\* number of Read calls made by the reader goroutine in one behaviour
MaxReads == 1

\* number of buffers one Done call is followed through, child after child
MaxHops == 3

\* number of ReserveSpace calls made while the reader goroutine runs
MaxOpsRead == 3

\* the round trip through the state word is tried on the values within
\* CodecSpan of the ends of each field's range
CodecSpan == 2

(* --------------------------- machine words ----------------------------- *)

\* 2^16, the modulus of the mask 0xffff
Two16 == 65536

\* 2^31 - 1: the largest value of the 31 bits 33..63 of the state word
Max31 == 2147483647

\* x mod 2^31 for -2^31 <= x < 2^31 (two's complement of a negative x)
Mod31(x) == IF x >= 0 THEN x ELSE (Max31 + x) + 1

\* bitwise or of two naturals
RECURSIVE BitOr(_, _)
BitOr(a, b) ==
    IF a = 0 THEN b
    ELSE IF b = 0 THEN a
    ELSE (IF a % 2 = 1 \/ b % 2 = 1 THEN 1 ELSE 0) + 2 * BitOr(a \div 2, b \div 2)

\* The uint64 state word is held as its four bit fields:
\*   b0  bit 0, lo  bits 1..16, mid  bits 17..32, hi  bits 33..63.
\* encodeState ors  isfullbits | uint64(nwriters) << 1 | uint64(offset) << 33;
\* a negative nwriters is sign-extended by the conversion to uint64, so its
\* bits run on into  mid  and  hi.
encodeState(isfull, nwriters, offset) ==
    [b0  |-> IF isfull THEN 1 ELSE 0,
     lo  |-> nwriters % Two16,
     mid |-> (nwriters \div Two16) % Two16,
     hi  |-> BitOr(Mod31((nwriters \div Two16) \div Two16), Mod31(offset))]

\* decodeState: isfull = state&1, nwriters = state>>1 & 0xffff, offset = state>>33
decodeState(state) ==
    [isfull |-> state.b0 = 1, nwriters |-> state.lo, offset |-> state.hi]

(* ------------------------- 64-bit offsets ------------------------------ *)

\* An int64 logical offset v >= 0 is held as two limbs, v = h * 2^31 + l
\* with 0 <= l < 2^31.
I64(n) == [h |-> 0, l |-> n]

\* a + n for an int64 a and 0 <= n < 2^31
I64Add(a, n) ==
    IF a.l <= Max31 - n
    THEN [h |-> a.h, l |-> a.l + n]
    ELSE [h |-> a.h + 1, l |-> (a.l - (Max31 - n)) - 1]

I64Less(a, b) == a.h < b.h \/ (a.h = b.h /\ a.l < b.l)

I64Leq(a, b) == a = b \/ I64Less(a, b)

\* a % m for an int64 a >= 0 and a small m > 0
I64Mod(a, m) == ((a.h % m) * (((Max31 % m) + 1) % m) + (a.l % m)) % m

\* int(a - b) for b <= a, when the difference is below 2^31; Max31 otherwise
I64Diff(a, b) ==
    IF a.h = b.h THEN a.l - b.l
    ELSE IF a.h = b.h + 1 /\ a.l < b.l THEN (Max31 - b.l) + 1 + a.l
    ELSE Max31

(* ------------------------------- state --------------------------------- *)

VARIABLES
    currBuf,      \* lsStore.currBuf
    head,         \* lsStore.head: a slot of flushBufs, or Nil
    tailOffset,   \* lsStore.tailOffset
    baseOffset,   \* flushBuffer.baseOffset of every slot
    child,        \* flushBuffer.child of every slot: a slot, or Nil
    state,        \* flushBuffer.state of every slot
    b,            \* flushBuffer.b of every slot: BufSize bytes
    file,         \* the bytes of the file behind lsStore.w and lsStore.r
    th,           \* every writer goroutine: its position and its locals
    rd,           \* the reader goroutine: its position and its locals
    nops,         \* number of ReserveSpace calls started
    crashed,      \* "no", or the panic that ended the process
    gen,          \* history: number of Resets of every slot
    issued,       \* history: what every ReserveSpace call returned
    finalized,    \* history: the reservations whose FinalizeWrite has returned
    flushLog,     \* history: the invocations of the flush callback, in order
    initLog,      \* history: what flushBuffer.Init found in the slot it took
    codec         \* input and output of one encodeState/decodeState round trip

vars == <<currBuf, head, tailOffset, baseOffset, child, state, b, file, th, rd,
          nops, crashed, gen, issued, finalized, flushLog, initLog, codec>>

lssVars == <<currBuf, head, tailOffset, baseOffset, child, state, b, file, th, rd,
             nops, crashed, gen, issued, finalized, flushLog, initLog>>

Nil == -1

Slots == 0 .. NBufs - 1

Writers == 1 .. NWriters

\* len(s.flushBufs): the number of flush buffers of the store
NumBufs == Cardinality(DOMAIN state)

\* the sizes a ReserveSpace call asks for: 0 < size <= bufSize
Sizes == 1 .. BufSize

(* ----------------------- flushBuffer accessors ------------------------- *)

\* flushBuffer.IsFull
IsFull(fb) == decodeState(state[fb]).isfull

\* flushBuffer.StartOffset
StartOffset(fb) == baseOffset[fb]

\* flushBuffer.EndOffset, given the fill offset it decoded from fb.state
EndOffset(fb, offset) == I64Add(baseOffset[fb], offset)

\* flushBuffer.NextBuffer
NextBuffer(fb) == child[fb]

\* a Reset that leaves no pinning reference on the buffer
ResetStateUnpinned == encodeState(FALSE, 0, 0)

\* flushBuffer.Reset writes  encodeState(false, 1, 0)
ResetState == encodeState(FALSE, 1, 0)

\* flushBuffer.Init writes  encodeState(false, 2, 0)
InitState == encodeState(FALSE, 2, 0)

\* os.File.WriteAt(bytes, pos): the file grows, zero filled, to hold the bytes
WriteAt(f, bytes, pos) ==
    IF Len(bytes) = 0 THEN f
    ELSE [i \in 1 .. (IF Len(f) > pos + Len(bytes) THEN Len(f) ELSE pos + Len(bytes)) |->
            IF i > pos /\ i <= pos + Len(bytes) THEN bytes[i - pos]
            ELSE IF i <= Len(f) THEN f[i]
            ELSE 0]

\* os.File.ReadAt(buf, pos) with len(buf) = l: the bytes read, fewer than l
\* (and io.EOF) when the file ends before pos + l
ReadAt(f, l, pos) ==
    LET n == IF Len(f) >= pos + l THEN l
             ELSE IF Len(f) > pos THEN Len(f) - pos
             ELSE 0
    IN  [bytes |-> [i \in 1 .. n |-> f[pos + i]], err |-> n < l]

(* ------------------------------ writers -------------------------------- *)

\* the locals of a writer that is in no call
W0 == [pc |-> "idle", size |-> 0, tag |-> 0, id |-> 0, fb |-> 0, nextFb |-> 0,
       off |-> 0, eoff |-> 0, arg |-> I64(0), retOff |-> I64(0), bufLen |-> 0,
       dfb |-> 0, dret |-> "none", hops |-> 0, fpos |-> 0, hold |-> FALSE, hgen |-> 0]

\* the writers that hold a slice allocated in generation g of slot fb and have
\* not yet called Done for it
Holders(fb, g) == {t \in Writers : th[t].hold /\ th[t].fb = fb /\ th[t].hgen = g}

\* the writers that hold a slice into slot fb, of whatever generation
SlotHolders(fb) == {t \in Writers : th[t].hold /\ th[t].fb = fb}

\* the locals of the reader when it is in no call; res is what its last
\* Read returned and want the bytes that were written at the offset it read
R0 == [pc |-> "idle", n |-> 0, off |-> I64(0), len |-> 0, want |-> << >>,
       tail |-> I64(0), end |-> 0, start |-> 0, so |-> I64(0), eoff |-> 0,
       fb |-> 0, base |-> I64(0), offset |-> 0, buf |-> << >>,
       res |-> [from |-> "none", bytes |-> << >>, err |-> FALSE]]

Init ==
    /\ currBuf = 0
    /\ head = 0
    /\ tailOffset = I64(0)
    /\ baseOffset = [i \in Slots |-> I64(0)]
    /\ child = [i \in Slots |-> Nil]
    /\ state = [i \in Slots |-> ResetState]
    /\ b = [i \in Slots |-> [j \in 1 .. BufSize |-> 0]]
    /\ file = << >>
    /\ th = [t \in Writers |-> W0]
    /\ rd = R0
    /\ nops = 0
    /\ crashed = "no"
    /\ gen = [i \in Slots |-> 0]
    /\ issued = {}
    /\ finalized = {}
    /\ flushLog = << >>
    /\ initLog = {}
    /\ codec = [done |-> FALSE, isfull |-> FALSE, nwriters |-> 0, offset |-> 0,
                 out |-> decodeState(encodeState(FALSE, 0, 0))]

\* writer t moves on with locals r
Step(t, r) == th' = [th EXCEPT ![t] = r]

\* a writer calls ReserveSpace(size), which starts with
\* id := atomic.LoadInt32(&s.currBuf) and fb := s.flushBufs[id % nbufs];
\* the call is given the next payload tag.  limit bounds the number of calls
ReserveSpace(t, limit) ==
    /\ crashed = "no"
    /\ th[t].pc = "idle"
    /\ nops < limit
    /\ \E size \in Sizes :
          Step(t, [W0 EXCEPT !.pc = "alloc", !.size = size, !.tag = nops + 1,
                             !.id = currBuf, !.fb = currBuf % NumBufs])
    /\ nops' = nops + 1
    /\ UNCHANGED <<currBuf, head, tailOffset, baseOffset, child, state, b, file, rd,
                   crashed, gen, issued, finalized, flushLog, initLog, codec>>

\* ReserveSpace, after goto retry: the same two lines once more
rsLoad(t) ==
    /\ crashed = "no"
    /\ th[t].pc = "rs_load"
    /\ Step(t, [th[t] EXCEPT !.pc = "alloc", !.id = currBuf, !.fb = currBuf % NumBufs])
    /\ UNCHANGED <<currBuf, head, tailOffset, baseOffset, child, state, b, file, rd,
                   nops, crashed, gen, issued, finalized, flushLog, initLog, codec>>

\* Alloc loads fb.state and commits with a compare-and-swap that succeeds only
\* on the word it loaded, retrying otherwise: the load and the successful swap
\* are one step.  Here the word says full: Alloc returns (false, false, 0, nil)
\* and ReserveSpace yields and retries.
AllocFull(t) ==
    /\ crashed = "no"
    /\ th[t].pc = "alloc"
    /\ decodeState(state[th[t].fb]).isfull
    /\ Step(t, [th[t] EXCEPT !.pc = "rs_load"])
    /\ UNCHANGED <<currBuf, head, tailOffset, baseOffset, child, state, b, file, rd,
                   nops, crashed, gen, issued, finalized, flushLog, initLog, codec>>

\* Alloc: size + offset > len(fb.b): the word is swapped for
\* encodeState(true, nw, offset) and Alloc returns (false, true, 0, nil);
\* ReserveSpace goes on to the successor slot (id + 1) % nbufs
AllocMarkFull(t) ==
    LET fb == th[t].fb
        s  == decodeState(state[fb])
    IN  /\ crashed = "no"
        /\ th[t].pc = "alloc"
        /\ ~s.isfull
        /\ s.offset > BufSize - th[t].size
        /\ state' = [state EXCEPT ![fb] = encodeState(TRUE, s.nwriters, s.offset)]
        /\ Step(t, [th[t] EXCEPT !.pc = "rs_spin", !.nextFb = (th[t].id + 1) % NumBufs])
        /\ UNCHANGED <<currBuf, head, tailOffset, baseOffset, child, b, file, rd,
                       nops, crashed, gen, issued, finalized, flushLog, initLog, codec>>

\* Alloc: the request fits: the word is swapped for
\* encodeState(false, nw + 1, size + offset)
AllocOk(t) ==
    LET fb == th[t].fb
        s  == decodeState(state[fb])
    IN  /\ crashed = "no"
        /\ th[t].pc = "alloc"
        /\ ~s.isfull
        /\ s.offset <= BufSize - th[t].size
        /\ state' = [state EXCEPT
                        ![fb] = encodeState(FALSE, s.nwriters + 1, th[t].size + s.offset)]
        /\ Step(t, [th[t] EXCEPT !.pc = "alloc_ret", !.off = s.offset,
                                  !.hold = TRUE, !.hgen = gen[fb]])
        /\ UNCHANGED <<currBuf, head, tailOffset, baseOffset, child, b, file, rd,
                       nops, crashed, gen, issued, finalized, flushLog, initLog, codec>>

\* Alloc returns (true, false, fb.baseOffset + offset, fb.b[offset:newOffset]) and
\* ReserveSpace returns it with the handle fb
AllocRet(t) ==
    LET r == [th[t] EXCEPT !.pc = "write",
                           !.retOff = I64Add(baseOffset[th[t].fb], th[t].off),
                           !.bufLen = th[t].size]
    IN  /\ crashed = "no"
        /\ th[t].pc = "alloc_ret"
        /\ Step(t, r)
        /\ issued' = issued \cup {[op |-> r.tag, off |-> r.retOff, size |-> r.size,
                                   len |-> r.bufLen, fb |-> r.fb, at |-> r.off]}
        /\ UNCHANGED <<currBuf, head, tailOffset, baseOffset, child, state, b, file, rd,
                       nops, crashed, gen, finalized, flushLog, initLog, codec>>

\* ReserveSpace, markedFull:  for nextFb.IsFull() { runtime.Gosched() }
\* one test of the loop: it yields and comes back while the successor is full
rsSpin(t) ==
    /\ crashed = "no"
    /\ th[t].pc = "rs_spin"
    /\ Step(t, [th[t] EXCEPT !.pc = IF IsFull(th[t].nextFb) THEN "rs_spin" ELSE "rs_end1"])
    /\ UNCHANGED <<currBuf, head, tailOffset, baseOffset, child, state, b, file, rd,
                   nops, crashed, gen, issued, finalized, flushLog, initLog, codec>>

\* the argument fb.EndOffset() of Init: it decodes fb.state ...
rsEnd1(t) ==
    /\ crashed = "no"
    /\ th[t].pc = "rs_end1"
    /\ Step(t, [th[t] EXCEPT !.pc = "rs_end2",
                              !.eoff = decodeState(state[th[t].fb]).offset])
    /\ UNCHANGED <<currBuf, head, tailOffset, baseOffset, child, state, b, file, rd,
                   nops, crashed, gen, issued, finalized, flushLog, initLog, codec>>

\* ... and adds fb.baseOffset
rsEnd2(t) ==
    /\ crashed = "no"
    /\ th[t].pc = "rs_end2"
    /\ Step(t, [th[t] EXCEPT !.pc = "init_base", !.eoff = 0,
                              !.arg = EndOffset(th[t].fb, th[t].eoff)])
    /\ UNCHANGED <<currBuf, head, tailOffset, baseOffset, child, state, b, file, rd,
                   nops, crashed, gen, issued, finalized, flushLog, initLog, codec>>

\* nextFb.Init(fb, end):  fb.baseOffset = baseOffset
InitBase(t) ==
    LET nx == th[t].nextFb
    IN  /\ crashed = "no"
        /\ th[t].pc = "init_base"
        /\ baseOffset' = [baseOffset EXCEPT ![nx] = th[t].arg]
        /\ initLog' = initLog \cup {[slot |-> nx,
                                     full |-> IsFull(nx),
                                     fill |-> decodeState(state[nx]).offset,
                                     held |-> SlotHolders(nx) # {}]}
        /\ Step(t, [th[t] EXCEPT !.pc = "init_state", !.arg = I64(0)])
        /\ UNCHANGED <<currBuf, head, tailOffset, child, state, b, file, rd,
                       nops, crashed, gen, issued, finalized, flushLog, codec>>

\* Init:  fb.state = encodeState(false, 2, 0)
InitStateWord(t) ==
    /\ crashed = "no"
    /\ th[t].pc = "init_state"
    /\ state' = [state EXCEPT ![th[t].nextFb] = InitState]
    /\ Step(t, [th[t] EXCEPT !.pc = "init_child"])
    /\ UNCHANGED <<currBuf, head, tailOffset, baseOffset, child, b, file, rd,
                   nops, crashed, gen, issued, finalized, flushLog, initLog, codec>>

\* Init:  parent.child = fb, and then parent.Done()
InitChild(t) ==
    /\ crashed = "no"
    /\ th[t].pc = "init_child"
    /\ child' = [child EXCEPT ![th[t].fb] = th[t].nextFb]
    /\ Step(t, [th[t] EXCEPT !.pc = "done_cas", !.dfb = th[t].fb, !.dret = "init",
                              !.hops = 0])
    /\ UNCHANGED <<currBuf, head, tailOffset, baseOffset, state, b, file, rd,
                   nops, crashed, gen, issued, finalized, flushLog, initLog, codec>>

\* Done:  if nw == 1 && isfull { fb.callb(fb) }
DoneFires(nw, isfull) == nw = 1 /\ isfull

\* Done loads fb.state and swaps it for encodeState(isfull, nw - 1, offset),
\* retrying until the swap succeeds (one step, as in Alloc); when it took the
\* count from 1 to 0 on a full buffer it calls the flush callback
DoneCAS(t) ==
    LET fb   == th[t].dfb
        s    == decodeState(state[fb])
        fire == DoneFires(s.nwriters, s.isfull)
    IN  /\ crashed = "no"
        /\ th[t].pc = "done_cas"
        /\ state' = [state EXCEPT ![fb] = encodeState(s.isfull, s.nwriters - 1, s.offset)]
        /\ Step(t, [th[t] EXCEPT !.pc = IF fire THEN "fl_start" ELSE "done_child",
                                  !.hold = FALSE])
        /\ flushLog' = IF fire
                       THEN Append(flushLog,
                                   [slot  |-> fb,
                                    gen   |-> gen[fb],
                                    start |-> StartOffset(fb),
                                    full  |-> s.isfull,
                                    held  |-> Holders(fb, gen[fb]) \ {t} # {},
                                    child |-> child[fb]])
                       ELSE flushLog
        /\ UNCHANGED <<currBuf, head, tailOffset, baseOffset, child, b, file, rd,
                       nops, crashed, gen, issued, finalized, initLog, codec>>

\* flush:  fpos := fb.StartOffset() % s.maxSize
flushPos(t) ==
    /\ crashed = "no"
    /\ th[t].pc = "fl_start"
    /\ Step(t, [th[t] EXCEPT !.pc = "fl_write",
                              !.fpos = I64Mod(StartOffset(th[t].dfb), MaxSize)])
    /\ UNCHANGED <<currBuf, head, tailOffset, baseOffset, child, state, b, file, rd,
                   nops, crashed, gen, issued, finalized, flushLog, initLog, codec>>

\* flush:  s.w.WriteAt(fb.Bytes(), fpos), Bytes being fb.b[:offset]; slicing
\* beyond the capacity of fb.b panics
flushWrite(t) ==
    LET fb     == th[t].dfb
        offset == decodeState(state[fb]).offset
    IN  /\ crashed = "no"
        /\ th[t].pc = "fl_write"
        /\ IF offset > BufSize
           THEN /\ crashed' = "bounds"
                /\ UNCHANGED <<file, th>>
           ELSE /\ file' = WriteAt(file, SubSeq(b[fb], 1, offset), th[t].fpos)
                /\ Step(t, [th[t] EXCEPT !.pc = "fl_head", !.fpos = 0])
                /\ UNCHANGED crashed
        /\ UNCHANGED <<currBuf, head, tailOffset, baseOffset, child, state, b, rd,
                       nops, gen, issued, finalized, flushLog, initLog, codec>>

\* flush:  atomic.StorePointer(&s.head, fb.child)
flushHead(t) ==
    /\ crashed = "no"
    /\ th[t].pc = "fl_head"
    /\ head' = child[th[t].dfb]
    /\ Step(t, [th[t] EXCEPT !.pc = "fl_tail1"])
    /\ UNCHANGED <<currBuf, tailOffset, baseOffset, child, state, b, file, rd,
                   nops, crashed, gen, issued, finalized, flushLog, initLog, codec>>

\* flush:  fb.EndOffset() decodes fb.state ...
flushTail1(t) ==
    /\ crashed = "no"
    /\ th[t].pc = "fl_tail1"
    /\ Step(t, [th[t] EXCEPT !.pc = "fl_tail2",
                              !.eoff = decodeState(state[th[t].dfb]).offset])
    /\ UNCHANGED <<currBuf, head, tailOffset, baseOffset, child, state, b, file, rd,
                   nops, crashed, gen, issued, finalized, flushLog, initLog, codec>>

\* ... adds fb.baseOffset, and  atomic.StoreInt64(&s.tailOffset, ...)
flushTail2(t) ==
    /\ crashed = "no"
    /\ th[t].pc = "fl_tail2"
    /\ tailOffset' = EndOffset(th[t].dfb, th[t].eoff)
    /\ Step(t, [th[t] EXCEPT !.pc = "fl_reset1", !.eoff = 0])
    /\ UNCHANGED <<currBuf, head, baseOffset, child, state, b, file, rd,
                   nops, crashed, gen, issued, finalized, flushLog, initLog, codec>>

\* Reset:  fb.baseOffset = 0
ResetBase(t) ==
    /\ crashed = "no"
    /\ th[t].pc = "fl_reset1"
    /\ baseOffset' = [baseOffset EXCEPT ![th[t].dfb] = I64(0)]
    /\ gen' = [gen EXCEPT ![th[t].dfb] = @ + 1]
    /\ Step(t, [th[t] EXCEPT !.pc = "fl_reset2"])
    /\ UNCHANGED <<currBuf, head, tailOffset, child, state, b, file, rd,
                   nops, crashed, issued, finalized, flushLog, initLog, codec>>

\* Reset:  fb.state = encodeState(false, 1, 0)
ResetStateWord(t) ==
    /\ crashed = "no"
    /\ th[t].pc = "fl_reset2"
    /\ state' = [state EXCEPT ![th[t].dfb] = ResetState]
    /\ Step(t, [th[t] EXCEPT !.pc = "fl_reset3"])
    /\ UNCHANGED <<currBuf, head, tailOffset, baseOffset, child, b, file, rd,
                   nops, crashed, gen, issued, finalized, flushLog, initLog, codec>>

\* Reset:  fb.child = nil; flush returns into Done
ResetChild(t) ==
    /\ crashed = "no"
    /\ th[t].pc = "fl_reset3"
    /\ child' = [child EXCEPT ![th[t].dfb] = Nil]
    /\ Step(t, [th[t] EXCEPT !.pc = "done_child"])
    /\ UNCHANGED <<currBuf, head, tailOffset, baseOffset, state, b, file, rd,
                   nops, crashed, gen, issued, finalized, flushLog, initLog, codec>>

\* Done:  if fb.child != nil.  With no child Done returns: into Init and
\* ReserveSpace, or out of FinalizeWrite, and then the reservation is final
DoneChild(t) ==
    /\ crashed = "no"
    /\ th[t].pc = "done_child"
    /\ IF child[th[t].dfb] # Nil
       THEN /\ Step(t, [th[t] EXCEPT !.pc = "done_call"])
            /\ UNCHANGED finalized
       ELSE IF th[t].dret = "init"
       THEN /\ Step(t, [th[t] EXCEPT !.pc = "rs_cas"])
            /\ UNCHANGED finalized
       ELSE /\ Step(t, W0)
            /\ finalized' = IF th[t].bufLen > 0
                            THEN finalized \cup {[op |-> th[t].tag, off |-> th[t].retOff,
                                                  len |-> th[t].bufLen]}
                            ELSE finalized
    /\ UNCHANGED <<currBuf, head, tailOffset, baseOffset, child, state, b, file, rd,
                   nops, crashed, gen, issued, flushLog, initLog, codec>>

\* Done:  fb.child.Done(): the field is read again for the call; a nil
\* receiver panics at its load of fb.state
DoneCall(t) ==
    /\ crashed = "no"
    /\ th[t].pc = "done_call"
    /\ th[t].hops < MaxHops
    /\ IF child[th[t].dfb] # Nil
       THEN /\ Step(t, [th[t] EXCEPT !.pc = "done_cas", !.dfb = child[th[t].dfb],
                                      !.hops = @ + 1])
            /\ UNCHANGED crashed
       ELSE /\ crashed' = "nil"
            /\ UNCHANGED th
    /\ UNCHANGED <<currBuf, head, tailOffset, baseOffset, child, state, b, file, rd,
                   nops, gen, issued, finalized, flushLog, initLog, codec>>

\* ReserveSpace, after Init:  CompareAndSwapInt32(&s.currBuf, id, nextId), and
\* panic("should not happen") when it fails.  Then control leaves the
\* if statement and reaches  return lssOffset(offset), buf, lssResource(fb)
\* with what the unsuccessful Alloc returned: offset 0 and a nil slice
rsCAS(t) ==
    LET r == [th[t] EXCEPT !.pc = "write", !.retOff = I64(0), !.bufLen = 0]
    IN  /\ crashed = "no"
        /\ th[t].pc = "rs_cas"
        /\ IF currBuf = th[t].id
           THEN /\ currBuf' = th[t].id + 1
                /\ Step(t, r)
                /\ issued' = issued \cup {[op |-> r.tag, off |-> r.retOff, size |-> r.size,
                                           len |-> r.bufLen, fb |-> r.fb, at |-> 0]}
                /\ UNCHANGED crashed
           ELSE /\ crashed' = "cas"
                /\ UNCHANGED <<currBuf, th, issued>>
        /\ UNCHANGED <<head, tailOffset, baseOffset, child, state, b, file, rd,
                       nops, gen, finalized, flushLog, initLog, codec>>

\* the caller fills the slice it was given with its payload and calls
\* FinalizeWrite(res), which is  res.(*flushBuffer).Done()
FinalizeWrite(t) ==
    LET fb == th[t].fb
        lo == th[t].off
        hi == th[t].off + th[t].bufLen
    IN  /\ crashed = "no"
        /\ th[t].pc = "write"
        /\ b' = [b EXCEPT ![fb] = [j \in 1 .. BufSize |->
                                      IF j > lo /\ j <= hi THEN th[t].tag ELSE b[fb][j]]]
        /\ Step(t, [th[t] EXCEPT !.pc = "done_cas", !.dfb = fb, !.dret = "fin",
                                  !.hops = 0])
        /\ UNCHANGED <<currBuf, head, tailOffset, baseOffset, child, state, file, rd,
                       nops, crashed, gen, issued, finalized, flushLog, initLog, codec>>

WriterNext(t, limit) ==
    \/ ReserveSpace(t, limit) \/ rsLoad(t)
    \/ AllocFull(t) \/ AllocMarkFull(t) \/ AllocOk(t) \/ AllocRet(t)
    \/ rsSpin(t) \/ rsEnd1(t) \/ rsEnd2(t)
    \/ InitBase(t) \/ InitStateWord(t) \/ InitChild(t)
    \/ DoneCAS(t) \/ DoneChild(t) \/ DoneCall(t)
    \/ flushPos(t) \/ flushWrite(t) \/ flushHead(t) \/ flushTail1(t) \/ flushTail2(t)
    \/ ResetBase(t) \/ ResetStateWord(t) \/ ResetChild(t)
    \/ rsCAS(t) \/ FinalizeWrite(t)

Next == \E t \in Writers : WriterNext(t, MaxOps)

Spec == Init /\ [][Next]_vars

(* ------------------------------- reader -------------------------------- *)

\* Read's locals are kept from one call to the next only in n and res
ReadReturn(from, bytes, err) ==
    rd' = [R0 EXCEPT !.n = rd.n + 1, !.want = rd.want, !.off = rd.off, !.len = rd.len,
                     !.res = [from |-> from, bytes |-> bytes, err |-> err]]

\* Read, at retry:  tail := atomic.LoadInt64(&s.tailOffset)  and the test
\* offset >= tail
ReadTail(r) ==
    rd' = [r EXCEPT !.pc = IF I64Leq(tailOffset, r.off) THEN "rd_cur" ELSE "rd_file",
                    !.tail = tailOffset]

\* the reader calls Read(O, buf) for a reservation (O, B) whose FinalizeWrite
\* has returned, with len(buf) = len(B)
Read ==
    /\ crashed = "no"
    /\ rd.pc = "idle"
    /\ rd.n < MaxReads
    /\ \E f \in finalized :
          ReadTail([R0 EXCEPT !.n = rd.n, !.off = f.off, !.len = f.len,
                              !.want = [i \in 1 .. f.len |-> f.op]])
    /\ UNCHANGED <<currBuf, head, tailOffset, baseOffset, child, state, b, file, th,
                   nops, crashed, gen, issued, finalized, flushLog, initLog, codec>>

\* Read, after goto retry
rdRetry ==
    /\ crashed = "no"
    /\ rd.pc = "rd_tail"
    /\ ReadTail(rd)
    /\ UNCHANGED <<currBuf, head, tailOffset, baseOffset, child, state, b, file, th,
                   nops, crashed, gen, issued, finalized, flushLog, initLog, codec>>

\* Read, offset < tail:  return s.r.ReadAt(buf, offset % s.maxSize)
rdFile ==
    LET got == ReadAt(file, rd.len, I64Mod(rd.off, MaxSize))
    IN  /\ crashed = "no"
        /\ rd.pc = "rd_file"
        /\ ReadReturn("file", got.bytes, got.err)
        /\ UNCHANGED <<currBuf, head, tailOffset, baseOffset, child, state, b, file, th,
                       nops, crashed, gen, issued, finalized, flushLog, initLog, codec>>

\* Read:  id := atomic.LoadInt32(&s.currBuf); end := s.flushBufs[id % nbufs]
rdCur ==
    /\ crashed = "no"
    /\ rd.pc = "rd_cur"
    /\ rd' = [rd EXCEPT !.pc = "rd_head", !.end = currBuf % NumBufs]
    /\ UNCHANGED <<currBuf, head, tailOffset, baseOffset, child, state, b, file, th,
                   nops, crashed, gen, issued, finalized, flushLog, initLog, codec>>

\* Read:  start := s.head
rdHead ==
    /\ crashed = "no"
    /\ rd.pc = "rd_head"
    /\ rd' = [rd EXCEPT !.pc = "rd_start", !.start = head]
    /\ UNCHANGED <<currBuf, head, tailOffset, baseOffset, child, state, b, file, th,
                   nops, crashed, gen, issued, finalized, flushLog, initLog, codec>>

\* Read:  startOffset := start.StartOffset(), a nil dereference when head was nil
rdStart ==
    /\ crashed = "no"
    /\ rd.pc = "rd_start"
    /\ IF rd.start = Nil
       THEN /\ crashed' = "nil"
            /\ UNCHANGED rd
       ELSE /\ rd' = [rd EXCEPT !.pc = "rd_end1", !.so = StartOffset(rd.start)]
            /\ UNCHANGED crashed
    /\ UNCHANGED <<currBuf, head, tailOffset, baseOffset, child, state, b, file, th,
                   nops, gen, issued, finalized, flushLog, initLog, codec>>

\* Read:  endOffset := end.EndOffset() decodes end.state ...
rdEnd1 ==
    /\ crashed = "no"
    /\ rd.pc = "rd_end1"
    /\ rd' = [rd EXCEPT !.pc = "rd_end2", !.eoff = decodeState(state[rd.end]).offset]
    /\ UNCHANGED <<currBuf, head, tailOffset, baseOffset, child, state, b, file, th,
                   nops, crashed, gen, issued, finalized, flushLog, initLog, codec>>

\* ... and adds end.baseOffset; then
\* if startOffset < endOffset && offset >= startOffset && offset < endOffset
\* the loop starts at fb := start, and otherwise goto retry
rdEnd2 ==
    LET endOffset == EndOffset(rd.end, rd.eoff)
        inside    == /\ I64Less(rd.so, endOffset)
                     /\ I64Leq(rd.so, rd.off)
                     /\ I64Less(rd.off, endOffset)
    IN  /\ crashed = "no"
        /\ rd.pc = "rd_end2"
        /\ rd' = [rd EXCEPT !.pc = IF inside THEN "fr_base" ELSE "rd_tail",
                            !.fb = rd.start, !.eoff = 0]
        /\ UNCHANGED <<currBuf, head, tailOffset, baseOffset, child, state, b, file, th,
                       nops, crashed, gen, issued, finalized, flushLog, initLog, codec>>

\* flushBuffer.Read:  base := fb.baseOffset
fbReadBase ==
    /\ crashed = "no"
    /\ rd.pc = "fr_base"
    /\ rd' = [rd EXCEPT !.pc = "fr_state", !.base = baseOffset[rd.fb]]
    /\ UNCHANGED <<currBuf, head, tailOffset, baseOffset, child, state, b, file, th,
                   nops, crashed, gen, issued, finalized, flushLog, initLog, codec>>

\* flushBuffer.Read:  _, _, offset := decodeState(fb.state)
fbReadState ==
    /\ crashed = "no"
    /\ rd.pc = "fr_state"
    /\ rd' = [rd EXCEPT !.pc = "fr_check", !.offset = decodeState(state[rd.fb]).offset]
    /\ UNCHANGED <<currBuf, head, tailOffset, baseOffset, child, state, b, file, th,
                   nops, crashed, gen, issued, finalized, flushLog, initLog, codec>>

\* where Read goes when fb.Read failed:  if fb == end { break loop }, and the
\* loop's fb = fb.NextBuffer() otherwise
AfterMiss == IF rd.fb = rd.end THEN "rd_tail" ELSE "rd_next"

\* flushBuffer.Read:
\* if base != fb.baseOffset || !(base <= off && off < base+int64(offset)) fails,
\* and so does  start+l > len(fb.b)  with start = int(off - base)
fbReadCheck ==
    LET ok == /\ rd.base = baseOffset[rd.fb]
              /\ I64Leq(rd.base, rd.off)
              /\ I64Less(rd.off, I64Add(rd.base, rd.offset))
              /\ I64Diff(rd.off, rd.base) <= BufSize - rd.len
    IN  /\ crashed = "no"
        /\ rd.pc = "fr_check"
        /\ rd' = [rd EXCEPT !.pc = IF ok THEN "fr_copy" ELSE AfterMiss]
        /\ UNCHANGED <<currBuf, head, tailOffset, baseOffset, child, state, b, file, th,
                       nops, crashed, gen, issued, finalized, flushLog, initLog, codec>>

\* flushBuffer.Read:  copy(buf, fb.b[start:start+l])
fbReadCopy ==
    LET start == I64Diff(rd.off, rd.base)
    IN  /\ crashed = "no"
        /\ rd.pc = "fr_copy"
        /\ rd' = [rd EXCEPT !.pc = "fr_post",
                            !.buf = SubSeq(b[rd.fb], start + 1, start + rd.len)]
        /\ UNCHANGED <<currBuf, head, tailOffset, baseOffset, child, state, b, file, th,
                       nops, crashed, gen, issued, finalized, flushLog, initLog, codec>>

\* flushBuffer.Read:  if base == fb.baseOffset { return l, nil }, and Read
\* returns it; errFBReadFailed otherwise
fbReadPost ==
    /\ crashed = "no"
    /\ rd.pc = "fr_post"
    /\ IF rd.base = baseOffset[rd.fb]
       THEN ReadReturn("buffer", rd.buf, FALSE)
       ELSE rd' = [rd EXCEPT !.pc = AfterMiss, !.buf = << >>]
    /\ UNCHANGED <<currBuf, head, tailOffset, baseOffset, child, state, b, file, th,
                   nops, crashed, gen, issued, finalized, flushLog, initLog, codec>>

\* Read, the loop:  fb = fb.NextBuffer(); fb != nil, and goto retry at the end
\* of the chain
rdNext ==
    /\ crashed = "no"
    /\ rd.pc = "rd_next"
    /\ rd' = IF NextBuffer(rd.fb) = Nil
             THEN [rd EXCEPT !.pc = "rd_tail"]
             ELSE [rd EXCEPT !.pc = "fr_base", !.fb = NextBuffer(rd.fb)]
    /\ UNCHANGED <<currBuf, head, tailOffset, baseOffset, child, state, b, file, th,
                   nops, crashed, gen, issued, finalized, flushLog, initLog, codec>>

ReaderNext ==
    \/ Read \/ rdRetry \/ rdFile \/ rdCur \/ rdHead \/ rdStart \/ rdEnd1 \/ rdEnd2
    \/ fbReadBase \/ fbReadState \/ fbReadCheck \/ fbReadCopy \/ fbReadPost \/ rdNext

\* the writers, for MaxOpsRead calls, and the reader
NextRead == (\E t \in Writers : WriterNext(t, MaxOpsRead)) \/ ReaderNext

SpecRead == Init /\ [][NextRead]_vars

(* ------------------------ the state word alone ------------------------- *)

\* writer counts at both ends of 0 .. 2^31 - 1 and around 2^16
CodecWriters ==
    (0 .. CodecSpan) \cup (Two16 - CodecSpan .. Two16 + CodecSpan)
                     \cup {Max31 - k : k \in 0 .. CodecSpan}

\* fill offsets at both ends of 0 .. 2^31 - 1
CodecOffsets == (0 .. CodecSpan) \cup {Max31 - k : k \in 0 .. CodecSpan}

\* decodeState(encodeState(isfull, nwriters, offset)) for one input
CodecRoundTrip ==
    /\ \E f \in BOOLEAN, n \in CodecWriters, o \in CodecOffsets :
          codec' = [done |-> TRUE, isfull |-> f, nwriters |-> n, offset |-> o,
                    out |-> decodeState(encodeState(f, n, o))]
    /\ UNCHANGED lssVars

SpecCodec == Init /\ [][CodecRoundTrip]_vars

(* ------------------------------- claims -------------------------------- *)

\* no goroutine has panicked and no writer is inside a call
Quiet == crashed = "no" /\ \A t \in Writers : th[t].pc = "idle"

\* the byte ranges two ReserveSpace calls were given do not meet
Disjoint(r1, r2) ==
    \/ I64Leq(I64Add(r1.off, r1.len), r2.off)
    \/ I64Leq(I64Add(r2.off, r2.len), r1.off)

\* C1: the (offset, slice) pairs returned by the ReserveSpace calls never
\* overlap, and once every call has returned they tile one byte range that
\* starts at logical offset 0: each slice starts at 0 or where another ends.
C1_ReservationsTile ==
    /\ \A r1, r2 \in issued : r1 # r2 => Disjoint(r1, r2)
    /\ Quiet => \A r \in issued :
                   \/ r.len = 0
                   \/ r.off = I64(0)
                   \/ \E q \in issued : q.len > 0 /\ I64Add(q.off, q.len) = r.off

\* C2: a Read(O, buf) that starts after FinalizeWrite returned for the
\* reservation (O, B), with len(buf) = len(B), returns B and no error, from a
\* flush buffer or from the file.
C2_RoundTrip ==
    rd.res.from # "none" => (~rd.res.err /\ rd.res.bytes = rd.want)

\* C3: the buffers passed to the flush callback, in the order of the calls,
\* have strictly increasing StartOffset.
C3_FlushOrder ==
    \A i, j \in DOMAIN flushLog :
        i < j => I64Less(flushLog[i].start, flushLog[j].start)

\* C4: tailOffset never decreases: no step stores a value smaller than the
\* one it replaces.
C4_TailMonotone == [][I64Leq(tailOffset, tailOffset')]_vars

\* C5: whenever the flush callback is invoked on a buffer, the buffer is full,
\* no writer still holds a slice allocated in that generation of it, and its
\* child is non-nil.
C5_FlushReady ==
    \A i \in DOMAIN flushLog :
        flushLog[i].full /\ ~flushLog[i].held /\ flushLog[i].child # Nil

\* the flush callback has been invoked on generation g of slot fb
Fired(fb, g) == \E i \in DOMAIN flushLog : flushLog[i].slot = fb /\ flushLog[i].gen = g

\* C6: the flush callback is invoked exactly once per buffer generation: never
\* twice between two Resets of a slot, and, when no call is in progress, a
\* generation that is sealed, has no reservation left to finalize and has its
\* successor installed has had its callback.
C6_FlushOncePerGeneration ==
    /\ \A i, j \in DOMAIN flushLog :
          (flushLog[i].slot = flushLog[j].slot /\ flushLog[i].gen = flushLog[j].gen)
             => i = j
    /\ Quiet => \A fb \in Slots :
                   (IsFull(fb) /\ Holders(fb, gen[fb]) = {} /\ child[fb] # Nil)
                      => Fired(fb, gen[fb])

\* C7: every return of ReserveSpace(size) delivers a slice of exactly size
\* bytes (the writer that sealed a buffer gets its slice in the successor, not
\* the nil slice of the unsuccessful Alloc).
C7_ReserveDelivers == \A r \in issued : r.len = r.size

\* C8: the compare-and-swap of currBuf from id to id + 1 never fails:
\* panic("should not happen") is unreachable.
C8_CursorSwapSucceeds == crashed # "cas"

\* C9: Init is applied only to a slot whose previous generation has been
\* flushed and Reset: the slot is not sealed, is empty, and no writer holds a
\* slice into it.
C9_InitAfterReset ==
    \A r \in initLog : ~r.full /\ r.fill = 0 /\ ~r.held

\* C10: decodeState(encodeState(full, nwriters, offset)) gives back
\* (full, nwriters, offset), also for nwriters >= 2^16.
C10_CodecRoundTrip ==
    codec.done => codec.out = [isfull |-> codec.isfull, nwriters |-> codec.nwriters,
                               offset |-> codec.offset]

\* writer t is executing the WriteAt of flush in this step
FlushWrites(t) == th[t].pc = "fl_write" /\ th'[t].pc = "fl_head"

\* C11: the file is a ring of MaxSize bytes: when flush has written a buffer
\* that covers the logical offsets [start, end), the file byte at position
\* O mod max_size is the buffer's byte for O, for every O in [start, end), and
\* the file has no position >= max_size.
C11_FileRing ==
    [][\A t \in Writers :
          FlushWrites(t) =>
             LET fb == th[t].dfb
                 n  == decodeState(state[fb]).offset
                 at(i) == I64Mod(I64Add(StartOffset(fb), i - 1), MaxSize)
             IN  /\ Len(file') <= MaxSize
                 /\ \A i \in 1 .. n : /\ at(i) < Len(file')
                                      /\ file'[at(i) + 1] = b[fb][i]]_vars

\* C12: in every quiescent state (no call in progress, every handle returned
\* by ReserveSpace finalized once) every buffer has nwriters = 1, and a buffer
\* that was flushed and Reset and is not the current one is not full and empty.
C12_RefCounts ==
    Quiet => \A fb \in Slots :
                /\ decodeState(state[fb]).nwriters = 1
                /\ (gen[fb] > 0 /\ fb # currBuf % NumBufs)
                      => (~IsFull(fb) /\ decodeState(state[fb]).offset = 0)

\* the slot reached from fb by following child n times, Nil once the chain ends
RECURSIVE ChildAfter(_, _)
ChildAfter(fb, n) ==
    IF fb = Nil \/ n = 0 THEN fb ELSE ChildAfter(child[fb], n - 1)

\* C13: in every reachable state head is non-nil and following child from
\* head reaches the current buffer flushBufs[currBuf mod N] in at most N - 1
\* steps.
C13_HeadReachesCurrent ==
    /\ head # Nil
    /\ \E n \in 0 .. NumBufs - 1 : ChildAfter(head, n) = currBuf % NumBufs

\* writer t is inside lsStore.flush: the callback has been called by Done and
\* the Reset that ends it has not finished
InFlush(t) ==
    th[t].pc \in {"fl_start", "fl_write", "fl_head", "fl_tail1", "fl_tail2",
                  "fl_reset1", "fl_reset2", "fl_reset3"}

\* C14: flush callbacks are mutually exclusive: no two threads are inside
\* lsStore.flush at the same time.
C14_FlushExclusive ==
    \A t, u \in Writers : (InFlush(t) /\ InFlush(u)) => t = u

(* ------------------------- fair scheduling ----------------------------- *)

\* every goroutine that can take a step eventually takes one: the writers
\* yield with runtime.Gosched() in their loops and the scheduler is fair
SpecLive == Init /\ [][Next]_vars /\ \A t \in Writers : WF_vars(WriterNext(t, MaxOps))

\* writer t is inside a ReserveSpace call that has not returned
InReserve(t) ==
    \/ th[t].pc \in {"alloc", "rs_load", "alloc_ret", "rs_spin", "rs_end1", "rs_end2",
                     "init_base", "init_state", "init_child", "rs_cas"}
    \/ th[t].dret = "init" /\ th[t].pc \notin {"idle", "write"}

\* a Done cascade has been followed through MaxHops buffers
HopBound == \E u \in Writers : th[u].pc = "done_call" /\ th[u].hops >= MaxHops

\* C15: with at least 2 buffers, sizes <= bufSize and every handle finalized
\* once, under fair scheduling every ReserveSpace call eventually returns.
\* Left aside are the behaviours that a nil dereference or an out-of-range
\* slice in a racing Done or flush ends, and those that follow a Done cascade
\* beyond MaxHops.
C15_ReserveReturns ==
    \A t \in Writers :
        InReserve(t) ~> (~InReserve(t) \/ crashed \in {"nil", "bounds"} \/ HopBound)

(* -------------------- reads of offsets never reserved ------------------ *)

\* a logical offset that no ReserveSpace call of the behaviour is given: the
\* MaxOps calls hand out fewer than MaxOps * BufSize bytes
FarOffset == I64(MaxOps * BufSize)

\* the reader calls Read(O, buf) for an offset O that was never reserved
ReadOut ==
    /\ crashed = "no"
    /\ rd.pc = "idle"
    /\ rd.n < MaxReads
    /\ \E l \in Sizes : ReadTail([R0 EXCEPT !.n = rd.n, !.off = FarOffset, !.len = l])
    /\ UNCHANGED <<currBuf, head, tailOffset, baseOffset, child, state, b, file, th,
                   nops, crashed, gen, issued, finalized, flushLog, initLog, codec>>

\* the steps of such a Read: the offset is not below tailOffset and not below
\* the current buffer's EndOffset, so Read stays in its retry loop
ReaderOutNext ==
    \/ ReadOut \/ rdRetry \/ rdCur \/ rdHead \/ rdStart \/ rdEnd1 \/ rdEnd2

\* the steps of a writer that is the only one: it never finds the current
\* buffer full, so ReserveSpace never yields and retries
WriterAlone(t) ==
    \/ ReserveSpace(t, MaxOps)
    \/ AllocMarkFull(t) \/ AllocOk(t) \/ AllocRet(t)
    \/ rsSpin(t) \/ rsEnd1(t) \/ rsEnd2(t)
    \/ InitBase(t) \/ InitStateWord(t) \/ InitChild(t)
    \/ DoneCAS(t) \/ DoneChild(t) \/ DoneCall(t)
    \/ flushPos(t) \/ flushWrite(t) \/ flushHead(t) \/ flushTail1(t) \/ flushTail2(t)
    \/ ResetBase(t) \/ ResetStateWord(t) \/ ResetChild(t)
    \/ rsCAS(t) \/ FinalizeWrite(t)

NextReadOut == WriterAlone(1) \/ ReaderOutNext

\* one writer and the reader, both scheduled fairly
SpecReadOut ==
    /\ Init
    /\ [][NextReadOut]_vars
    /\ WF_vars(ReaderOutNext)
    /\ WF_vars(WriterAlone(1))

\* C16: a Read of an offset at or above tailOffset that is in no resident
\* buffer (never reserved) terminates with an error instead of retrying
\* without end.
C16_ReadOutOfRange ==
    (rd.pc # "idle") ~> (rd.pc = "idle" /\ rd.res.from # "none" /\ rd.res.err)

\* this step stores a fresh state word into slot fb: the Reset that ends a
\* generation of it or the Init that starts one
StartsGeneration(fb) ==
    \E t \in Writers :
        \/ th[t].pc = "fl_reset2" /\ th'[t].pc = "fl_reset3" /\ th[t].dfb = fb
        \/ th[t].pc = "init_state" /\ th'[t].pc = "init_child" /\ th[t].nextFb = fb

\* C17: within one generation of a buffer the fill offset of the state word
\* never decreases while full = false, and once full = true neither the full
\* flag nor the fill offset changes until Reset (Alloc and Done on a sealed
\* buffer leave them alone).
C17_OffsetFrozen ==
    [][\A fb \in Slots :
          ~StartsGeneration(fb) =>
             LET old == decodeState(state[fb])
                 new == decodeState(state'[fb])
             IN  IF old.isfull
                 THEN new.isfull /\ new.offset = old.offset
                 ELSE new.offset >= old.offset]_vars

\* writer t executes the compare-and-swap of Done in this step
DoneSwaps(t) == th[t].pc = "done_cas" /\ th'[t].pc # "done_cas"

\* C18: the writer count never underflows: Done (called by FinalizeWrite, by
\* Init on the parent, or by the cascade to the child) is never applied to a
\* state word whose nwriters is 0.
C18_NoUnderflow ==
    [][\A t \in Writers :
          DoneSwaps(t) => decodeState(state[th[t].dfb]).nwriters > 0]_vars

\* C19: whenever no flush callback is in the middle of executing,
\* head.StartOffset() equals tailOffset: the oldest resident buffer begins
\* where the durable part of the log ends.
C19_HeadAtTail ==
    (\A t \in Writers : ~InFlush(t)) => (head # Nil /\ StartOffset(head) = tailOffset)

(* --------------------------- a ring of one ----------------------------- *)

\* newLSStore with nbufs = 1: flushBufs has the single slot 0
InitOneBuf ==
    /\ currBuf = 0
    /\ head = 0
    /\ tailOffset = I64(0)
    /\ baseOffset = [i \in {0} |-> I64(0)]
    /\ child = [i \in {0} |-> Nil]
    /\ state = [i \in {0} |-> ResetState]
    /\ b = [i \in {0} |-> [j \in 1 .. BufSize |-> 0]]
    /\ file = << >>
    /\ th = [t \in Writers |-> W0]
    /\ rd = R0
    /\ nops = 0
    /\ crashed = "no"
    /\ gen = [i \in {0} |-> 0]
    /\ issued = {}
    /\ finalized = {}
    /\ flushLog = << >>
    /\ initLog = {}
    /\ codec = [done |-> FALSE, isfull |-> FALSE, nwriters |-> 0, offset |-> 0,
                 out |-> decodeState(encodeState(FALSE, 0, 0))]

\* the steps the writers take on a ring of one buffer: what lies beyond the
\* spin of ReserveSpace and beyond the call of the flush callback in Done is
\* never reached (C20 says so: no writer gets to "rs_end1" or "fl_start")
NextOneBuf ==
    \E t \in Writers :
        \/ ReserveSpace(t, MaxOps) \/ rsLoad(t)
        \/ AllocFull(t) \/ AllocMarkFull(t) \/ AllocOk(t) \/ AllocRet(t)
        \/ rsSpin(t)
        \/ FinalizeWrite(t) \/ DoneCAS(t) \/ DoneChild(t)

SpecOneBuf == InitOneBuf /\ [][NextOneBuf]_vars

\* where a writer is that has not been given a slice: in no call, in Alloc, on
\* its way back to retry, or in the spin on nextFb.IsFull()
Waiting(t) == th[t].pc \in {"idle", "alloc", "rs_load", "rs_spin"}

\* C20: with one buffer, the call that seals it spins for ever on
\* nextFb.IsFull(): the successor is the sealed buffer itself, no writer leaves
\* the spin, the flush callback is never called, and once the buffer is sealed
\* it stays sealed and no writer without a slice is ever given one: every
\* later ReserveSpace call never returns.
C20_OneBufferDeadlock ==
    /\ [](\A t \in Writers : th[t].pc \notin {"rs_end1", "fl_start", "done_call"})
    /\ [][IsFull(0) => /\ IsFull(0)'
                       /\ \A t \in Writers : Waiting(t) => Waiting(t)']_vars

\* C20, witness: one writer is in the spin on the sealed buffer, which is its
\* own successor, another is retrying its Alloc, and every slice handed out
\* before has been finalized
C20_Sealed ==
    \E t, u \in Writers :
        /\ th[t].pc = "rs_spin" /\ th[t].nextFb = th[t].fb /\ IsFull(th[t].nextFb)
        /\ th[u].pc = "rs_load"
        /\ finalized # {}
        /\ decodeState(state[0]).nwriters = 1

====
